---------------------------- MODULE Spec2Model ----------------------------
(* A model of GeoStackr (src/geostackr.py): the score-function pipeline,  *)
(* the participant record, the number extractor, the leaderboard builder  *)
(* with its reset rule, and ranking/formatting.                           *)
(*                                                                        *)
(* Conventions.  A Python str is a sequence of one-character strings.     *)
(* A Python dict is a sequence of <<key, value>> pairs in insertion       *)
(* order (dicts keep insertion order).  A raised exception is the record  *)
(* [exc |-> name]; an operator that can raise returns either its value or *)
(* such a record.  An optional value is None or Some(v).                  *)
EXTENDS Integers, Sequences, FiniteSets, TLC

\* ------------------------------------------------------------ bounds
MaxList == 3
MaxParam == 3
MaxPosts == 3
MaxComments == 2
MaxEntries == 3
MaxOrdinal == 125
MaxRound == 3
MaxMatches == 3
MaxSeries == 2
MaxSleepModifier == 4

\* ------------------------------------------------------------ basics
\* the outcome of a call: a returned value, or a raised exception
Ok(v) == [ok |-> TRUE, val |-> v]

Raise(name) == [ok |-> FALSE, exc |-> name]

\* an Optional: None, or a value
None == [some |-> FALSE]

Some(v) == [some |-> TRUE, val |-> v]

Min2(a, b) == IF a <= b THEN a ELSE b

Max2(a, b) == IF a >= b THEN a ELSE b

Digits == <<"0", "1", "2", "3", "4", "5", "6", "7", "8", "9">>

IsDigit(c) == \E d \in 1..10 : Digits[d] = c

DigitVal(c) == (CHOOSE d \in 1..10 : Digits[d] = c) - 1

RECURSIVE SeqSum(_)
SeqSum(s) == IF s = <<>> THEN 0 ELSE Head(s) + SeqSum(Tail(s))

RECURSIVE Insert(_, _)
Insert(x, s) ==
  IF s = <<>> THEN <<x>>
  ELSE IF x < Head(s) THEN <<x>> \o s
  ELSE <<Head(s)>> \o Insert(x, Tail(s))

\* sorted(list): ascending
RECURSIVE Sorted(_)
Sorted(s) == IF s = <<>> THEN <<>> ELSE Insert(s[Len(s)], Sorted(SubSeq(s, 1, Len(s) - 1)))

\* s[i:] with Python's slice rules: a negative i counts from the end, and
\* both ends are clamped to the list.  Note -0 = 0, so s[-0:] is all of s.
SliceFrom(s, i) ==
  LET start == IF i < 0 THEN Max2(Len(s) + i, 0) ELSE Min2(i, Len(s))
  IN SubSeq(s, start + 1, Len(s))

\* s[:j] for j >= 0
SliceTo(s, j) == SubSeq(s, 1, Min2(j, Len(s)))

\* [v] * k: the empty list when k <= 0
Repeat(v, k) == [i \in 1..Max2(k, 0) |-> v]

\* int(digits): the digits' decimal value; int("") raises ValueError
RECURSIVE DecValue(_)
DecValue(ds) ==
  IF ds = <<>> THEN 0 ELSE 10 * DecValue(SubSeq(ds, 1, Len(ds) - 1)) + DigitVal(ds[Len(ds)])

\* str(i) for i >= 0
RECURSIVE ToStr(_)
ToStr(i) == IF i < 10 THEN <<Digits[i + 1]>> ELSE ToStr(i \div 10) \o <<Digits[(i % 10) + 1]>>

Chars(word) ==
  CASE word = "max" -> <<"m", "a", "x">>
    [] word = "min" -> <<"m", "i", "n">>
    [] word = "pad" -> <<"p", "a", "d">>
    [] word = "with" -> <<"w", "i", "t", "h">>
    [] word = "sum" -> <<"s", "u", "m">>
    [] word = "average" -> <<"a", "v", "e", "r", "a", "g", "e">>
    [] word = "newest" -> <<"n", "e", "w", "e", "s", "t">>
    [] word = "oldest" -> <<"o", "l", "d", "e", "s", "t">>
    [] word = "day" -> <<"d", "a", "y">>
    [] word = "week" -> <<"w", "e", "e", "k">>
    [] word = "month" -> <<"m", "o", "n", "t", "h">>
    [] word = "Week" -> <<"W", "e", "e", "k">>
    [] word = " -> " -> <<" ", "-", ">", " ">>
    [] word = "" -> <<>>

\* whether the characters of w stand in s from position i on
HasAt(s, i, w) == i + Len(w) - 1 <= Len(s) /\ SubSeq(s, i, i + Len(w) - 1) = w

\* needle in hay (substring test)
Contains(hay, needle) == \E i \in 1..(Len(hay) + 1) : HasAt(hay, i, needle)

\* ------------------------------------------------------------ ScoreFunction
\* the end of the longest run of digits that starts at i (i - 1: no digit at i)
RECURSIVE DigitsEnd(_, _)
DigitsEnd(s, i) == IF i <= Len(s) /\ IsDigit(s[i]) THEN DigitsEnd(s, i + 1) ELSE i - 1

\* name(\d+) at position i: the stage and the match's end, or no match
MatchOneParam(s, i, word, name) ==
  LET w == Chars(word)
      e == DigitsEnd(s, i + Len(w))
  IN IF HasAt(s, i, w) /\ e >= i + Len(w)
     THEN [matched |-> TRUE, end |-> e, name |-> name,
           params |-> <<DecValue(SubSeq(s, i + Len(w), e))>>]
     ELSE [matched |-> FALSE]

\* pad(\d+)with(\d+) at position i
MatchPad(s, i) ==
  LET e1 == DigitsEnd(s, i + 3)
      e2 == DigitsEnd(s, e1 + 5)
  IN IF HasAt(s, i, Chars("pad")) /\ e1 >= i + 3 /\ HasAt(s, e1 + 1, Chars("with")) /\ e2 >= e1 + 5
     THEN [matched |-> TRUE, end |-> e2, name |-> "padXwithX",
           params |-> <<DecValue(SubSeq(s, i + 3, e1)), DecValue(SubSeq(s, e1 + 5, e2))>>]
     ELSE [matched |-> FALSE]

MatchWord(s, i, word) ==
  IF HasAt(s, i, Chars(word))
  THEN [matched |-> TRUE, end |-> i + Len(Chars(word)) - 1, name |-> word, params |-> <<>>]
  ELSE [matched |-> FALSE]

\* the pattern (max(\d+)|min(\d+)|pad(\d+)with(\d+)|sum|average|newest(\d+)|oldest(\d+))
\* at position i: the first alternative that matches, or no match
MatchAt(s, i) ==
  LET alts == << MatchOneParam(s, i, "max", "maxX"),
                 MatchOneParam(s, i, "min", "minX"),
                 MatchPad(s, i),
                 MatchWord(s, i, "sum"),
                 MatchWord(s, i, "average"),
                 MatchOneParam(s, i, "newest", "newestX"),
                 MatchOneParam(s, i, "oldest", "oldestX") >>
  IN IF \E k \in 1..7 : alts[k].matched
     THEN alts[CHOOSE k \in 1..7 : alts[k].matched /\ \A j \in 1..(k - 1) : ~alts[j].matched]
     ELSE [matched |-> FALSE]

\* re.findall: the non-overlapping matches, scanning left to right; text that
\* matches no stage is skipped
RECURSIVE FindStages(_, _)
FindStages(s, i) ==
  IF i > Len(s) THEN <<>>
  ELSE LET m == MatchAt(s, i)
       IN IF ~m.matched THEN FindStages(s, i + 1)
          ELSE <<[name |-> m.name, params |-> m.params]>> \o FindStages(s, m.end + 1)

maxX(n_outputs, input_scores) == SliceFrom(Sorted(input_scores), -n_outputs)

minX(n_outputs, input_scores) == SliceTo(Sorted(input_scores), n_outputs)

padXwithX(n_outputs, pad_with, input_scores) ==
  Repeat(pad_with, n_outputs - Len(input_scores)) \o input_scores

sum_(input_scores) == <<SeqSum(input_scores)>>

average(input_scores) ==
  IF Len(input_scores) = 0 THEN Raise("ZeroDivisionError")
  ELSE Ok(<<SeqSum(input_scores) \div Len(input_scores)>>)

newestX(n_outputs, input_scores) == SliceFrom(input_scores, -n_outputs)

oldestX(n_outputs, input_scores) == SliceTo(input_scores, n_outputs)

BuiltinSum == [name |-> "builtin_sum", params |-> <<>>]

\* ScoreFunction.__init__: the parsed stages, then the builtin sum
ScoreFunction(score_function_str) == FindStages(score_function_str, 1) \o <<BuiltinSum>>

\* one stage applied to the intermediate scores
ApplyStage(f, x) ==
  CASE f.name = "maxX" -> Ok(maxX(f.params[1], x))
    [] f.name = "minX" -> Ok(minX(f.params[1], x))
    [] f.name = "padXwithX" -> Ok(padXwithX(f.params[1], f.params[2], x))
    [] f.name = "sum" -> Ok(sum_(x))
    [] f.name = "average" -> average(x)
    [] f.name = "newestX" -> Ok(newestX(f.params[1], x))
    [] f.name = "oldestX" -> Ok(oldestX(f.params[1], x))
    [] f.name = "builtin_sum" -> Ok(SeqSum(x))

\* ScoreFunction.__call__: the stages left to right; an exception ends the call
RECURSIVE RunStages(_, _)
RunStages(functions, r) ==
  IF functions = <<>> \/ ~r.ok THEN r
  ELSE RunStages(Tail(functions), ApplyStage(Head(functions), r.val))

CallScoreFunction(functions, scores) == RunStages(functions, Ok(scores))

\* ------------------------------------------------------------ UserScores
\* UserScores.__init__
NewUserScores(author, score_function) ==
  [author |-> author, score_function |-> score_function, scores |-> <<>>]

\* list(d.values()) / list of keys of a dict, in insertion order
Values(d) == [i \in 1..Len(d) |-> d[i][2]]

Keys(d) == [i \in 1..Len(d) |-> d[i][1]]

HasKey(d, k) == \E i \in 1..Len(d) : d[i][1] = k

KeyIndex(d, k) == CHOOSE i \in 1..Len(d) : d[i][1] = k

\* a faulty d[k] = v that accumulates: the pair is appended even when k is a key
DictSetAppending(d, k, v) == Append(d, <<k, v>>)

\* d[k] = v: an existing key keeps its place, a new key goes last
DictSet(d, k, v) ==
  IF HasKey(d, k) THEN [d EXCEPT ![KeyIndex(d, k)] = <<k, v>>] ELSE Append(d, <<k, v>>)

DictGet(d, k, default) == IF HasKey(d, k) THEN d[KeyIndex(d, k)][2] ELSE default

\* a faulty add that records nothing
UserScoresAddNothing(u, round_index, score) == u

\* UserScores.add
UserScoresAdd(u, round_index, score) ==
  [u EXCEPT !.scores = DictSet(u.scores, round_index, score)]

\* UserScores.apply_score_function
apply_score_function(u) == CallScoreFunction(u.score_function, Values(u.scores))

\* UserScores.sum / len / avg
UserScoresSum(u) == SeqSum(Values(u.scores))

UserScoresLen(u) == Len(u.scores)

UserScoresAvg(u) ==
  IF UserScoresLen(u) = 0 THEN Raise("ZeroDivisionError")
  ELSE Ok(UserScoresSum(u) \div UserScoresLen(u))

\* ------------------------------------------------------------ series config
\* series_config.get(key, default)
ConfigGet(series_config, key, default) ==
  IF key \in DOMAIN series_config THEN series_config[key] ELSE default

BotUsername == "GeoStackrBot"

IGNORE_USERS == {BotUsername, "GeoGuessrTrackingBot"}

\* ------------------------------------------------------------ number extractor
\* max / min of two numbers, as get_goal_function picks them
get_goal_function(series_config, a, b) ==
  IF ConfigGet(series_config, "goal", "highest") = "highest" THEN Max2(a, b) ELSE Min2(a, b)

\* a faulty selection: the first surviving candidate, whatever the goal
GoalOfListFirst(series_config, numbers) == numbers[1]

\* goal_function(numbers) over a non-empty list
RECURSIVE GoalOfList(_, _)
GoalOfList(series_config, numbers) ==
  IF Len(numbers) = 1 THEN numbers[1]
  ELSE get_goal_function(series_config, numbers[1], GoalOfList(series_config, Tail(numbers)))

\* re.sub(r"[^0-9]", "", match)
StripNonDigits(match) == SelectSeq(match, IsDigit)

\* get_goal_number_from_text.  The text is given as the list of substrings the
\* configured pattern matches in it (re.findall), each holding at least one
\* digit as the number patterns of a series do.
get_goal_number_from_text(series_config, text) ==
  LET numbers == [i \in 1..Len(text) |-> DecValue(StripNonDigits(text[i]))]
      above == IF "min" \in DOMAIN series_config
               THEN SelectSeq(numbers, LAMBDA x : series_config["min"] <= x)
               ELSE numbers
      within == IF "max" \in DOMAIN series_config
                THEN SelectSeq(above, LAMBDA x : x <= series_config["max"])
                ELSE above
  IN IF within # <<>> THEN Some(GoalOfList(series_config, within)) ELSE None

\* Python's truth value of an Optional[int]: None and 0 are false
Truthy(number) == number.some /\ number.val # 0

\* a faulty scan that takes the score of every present author, ignored or not
ScanCommentUnfiltered(score_list, comment, series_config) ==
  IF comment.author.some
  THEN LET number == get_goal_number_from_text(series_config, comment.body)
       IN IF Truthy(number)
          THEN DictSet(score_list, comment.author.val,
                       get_goal_function(series_config, number.val,
                                         DictGet(score_list, comment.author.val, number.val)))
          ELSE score_list
  ELSE score_list

\* one turn of get_score_list's loop over the comments
ScanComment(score_list, comment, series_config) ==
  IF comment.author.some
  THEN IF comment.author.val \notin (IGNORE_USERS \cup series_config["ignore"])
       THEN LET number == get_goal_number_from_text(series_config, comment.body)
            IN IF Truthy(number)
               THEN DictSet(score_list, comment.author.val,
                            get_goal_function(series_config, number.val,
                                              DictGet(score_list, comment.author.val, number.val)))
               ELSE score_list
       ELSE score_list
  ELSE score_list

\* get_score_list: the comments scanned first to last
RECURSIVE get_score_list(_, _)
get_score_list(comments, series_config) ==
  IF comments = <<>> THEN <<>>
  ELSE ScanComment(get_score_list(SubSeq(comments, 1, Len(comments) - 1), series_config),
                   comments[Len(comments)], series_config)

\* ------------------------------------------------------------ leaderboard
\* merge_scores' loop over sub_scores.items()
RECURSIVE MergeItems(_, _, _, _)
MergeItems(scores_dict, sub_scores, series_index, score_function) ==
  IF sub_scores = <<>> THEN scores_dict
  ELSE LET user == sub_scores[1][1]
           score == sub_scores[1][2]
           record == DictGet(scores_dict, user, NewUserScores(user, score_function))
       IN MergeItems(DictSet(scores_dict, user, UserScoresAdd(record, series_index, score)),
                     Tail(sub_scores), series_index, score_function)

merge_scores(scores_dict, comments, series_index, series_config) ==
  MergeItems(scores_dict, get_score_list(comments, series_config), series_index,
             ScoreFunction(series_config["series_score_function"]))

\* ------------------------------------------------------------ ranking, formatting
\* a faulty sort that is not stable: an item goes before the items of equal key
RECURSIVE SortByKeyUnstable(_, _)
SortByKeyUnstable(items, key) ==
  IF items = <<>> THEN <<>>
  ELSE LET n == Len(items)
           head == SortByKeyUnstable(SubSeq(items, 1, n - 1), SubSeq(key, 1, n - 1))
           k == Cardinality({j \in 1..Len(head) : head[j][1] < key[n]})
       IN SubSeq(head, 1, k) \o <<<<key[n], items[n]>>>> \o SubSeq(head, k + 1, Len(head))

\* list.sort(key = ...) on precomputed keys: stable, ascending
RECURSIVE SortByKey(_, _)
SortByKey(items, key) ==
  IF items = <<>> THEN <<>>
  ELSE LET n == Len(items)
           head == SortByKey(SubSeq(items, 1, n - 1), SubSeq(key, 1, n - 1))
           \* head is a sequence of <<key, item>>; the last item goes after every
           \* pair whose key is not greater than its own
           k == Cardinality({i \in 1..Len(head) : head[i][1] <= key[n]})
       IN SubSeq(head, 1, k) \o <<<<key[n], items[n]>>>> \o SubSeq(head, k + 1, Len(head))

SortedItems(items, key) == LET s == SortByKey(items, key) IN [i \in 1..Len(s) |-> s[i][2]]

\* get_top: the items of the dict, sorted by -apply_score_function()
get_top(scores_dict) ==
  LET reduced == [i \in 1..Len(scores_dict) |-> apply_score_function(scores_dict[i][2])]
  IN IF \E i \in 1..Len(reduced) : ~reduced[i].ok
     THEN reduced[CHOOSE i \in 1..Len(reduced) : ~reduced[i].ok]
     ELSE Ok(SortedItems(scores_dict, [i \in 1..Len(reduced) |-> -reduced[i].val]))

add_ordinal_suffix(i) ==
  LET key == IF i % 100 < 20 THEN i ELSE i % 10
  IN ToStr(i) \o (CASE key = 1 -> <<"s", "t">>
                    [] key = 2 -> <<"n", "d">>
                    [] key = 3 -> <<"r", "d">>
                    [] OTHER -> <<"t", "h">>)

\* get_formatted_table's previous_score_and_index once the loop has handled the
\* entries 1..index: (None, None) before the first entry
RECURSIVE previous_score_and_index(_, _)
previous_score_and_index(reduced, index) ==
  IF index = 0 THEN [some |-> FALSE]
  ELSE LET previous == previous_score_and_index(reduced, index - 1)
       IN IF ~previous.some \/ previous.score # reduced[index]
          THEN [some |-> TRUE, score |-> reduced[index], index |-> index]
          ELSE previous

\* a faulty table that numbers every row by its own position
ShownIndexOwnPosition(reduced, index) == index

ShownIndex(reduced, index) == previous_score_and_index(reduced, index).index

\* get_formatted_table: the rows of the table, each a record of its cells' texts
get_formatted_table(top) ==
  LET reduced == [i \in 1..Len(top) |-> apply_score_function(top[i][2])]
      avgs == [i \in 1..Len(top) |-> UserScoresAvg(top[i][2])]
  IN IF \E i \in 1..Len(top) : ~reduced[i].ok \/ ~avgs[i].ok
     THEN LET i == CHOOSE j \in 1..Len(top) : ~reduced[j].ok \/ ~avgs[j].ok
          IN IF ~reduced[i].ok THEN reduced[i] ELSE avgs[i]
     ELSE Ok([i \in 1..Len(top) |->
               [rank |-> add_ordinal_suffix(ShownIndex([j \in 1..Len(top) |-> reduced[j].val], i)),
                user |-> top[i][1],
                played |-> ToStr(UserScoresLen(top[i][2])),
                average |-> ToStr(avgs[i].val),
                score |-> ToStr(reduced[i].val)]])

\* ------------------------------------------------------------ dates
\* datetime.fromtimestamp(created_utc) in a UTC process: the civil date of the
\* timestamp's day (the proleptic Gregorian calendar)
DaysOf(created_utc) == created_utc \div 86400

CivilFromDays(days) ==
  LET z == days + 719468
      era == z \div 146097
      doe == z - era * 146097
      yoe == (doe - doe \div 1460 + doe \div 36524 - doe \div 146096) \div 365
      doy == doe - (365 * yoe + yoe \div 4 - yoe \div 100)
      mp == (5 * doy + 2) \div 153
      d == doy - (153 * mp + 2) \div 5 + 1
      m == IF mp < 10 THEN mp + 3 ELSE mp - 9
  IN [year |-> yoe + era * 400 + (IF m <= 2 THEN 1 ELSE 0), month |-> m, day |-> d]

DaysFromCivil(year, month, day) ==
  LET y == IF month <= 2 THEN year - 1 ELSE year
      era == y \div 400
      yoe == y - era * 400
      mp == IF month > 2 THEN month - 3 ELSE month + 9
      doy == (153 * mp + 2) \div 5 + day - 1
      doe == yoe * 365 + yoe \div 4 - yoe \div 100 + doy
  IN era * 146097 + doe - 719468

\* date.isoweekday(): Monday is 1 (1970-01-01 was a Thursday)
IsoWeekday(days) == ((days + 3) % 7) + 1

\* date.isocalendar(): the ISO year and week are those of the week's Thursday
IsoCalendar(days) ==
  LET thursday == days - IsoWeekday(days) + 4
      iso_year == CivilFromDays(thursday).year
  IN <<iso_year, (thursday - DaysFromCivil(iso_year, 1, 1)) \div 7 + 1, IsoWeekday(days)>>

Timestamp(year, month, day, hour) == DaysFromCivil(year, month, day) * 86400 + hour * 3600

\* str.lower() on the letters the configs use
Lower(str) == [i \in 1..Len(str) |-> IF str[i] = "W" THEN "w" ELSE str[i]]

\* the value each (interval, function) pair of if_reset_series_scores computes
IntervalValue(interval, created_utc) ==
  CASE interval = "day" -> CivilFromDays(DaysOf(created_utc)).day
    [] interval = "week" -> IsoCalendar(DaysOf(created_utc))[2]
    [] interval = "month" -> CivilFromDays(DaysOf(created_utc)).month

\* if_reset_series_scores; submissions is 0-based in the code: submissions[i]
\* is submissions[i + 1] here, and an index past the end raises IndexError
if_reset_series_scores(submissions, current_index, series_config) ==
  IF current_index = 0 THEN Ok(FALSE)
  ELSE IF current_index - 1 >= Len(submissions) \/ current_index >= Len(submissions)
  THEN Raise("IndexError")
  ELSE LET prev_post_date == submissions[current_index].created_utc
           curr_post_date == submissions[current_index + 1].created_utc
           reset_when == Lower(ConfigGet(series_config, "reset_every", Chars("")))
       IN Ok(\E interval \in {"day", "week", "month"} :
               /\ Contains(reset_when, Chars(interval))
               /\ IntervalValue(interval, prev_post_date) # IntervalValue(interval, curr_post_date))

\* ------------------------------------------------------------ state
VARIABLES
  pc,                    \* where the modelled call stands
  series_config,         \* the series config of the call
  relevant_submissions,  \* check_submissions_for_series: the sorted posts
  series_index,          \* the loop's 1-based round index
  scores_dict,           \* the leaderboard: user -> UserScores, insertion-ordered
  comments,              \* the top-level comments read under the current post
  table,                 \* the outcome of the last get_formatted_table call
  cleared,               \* history: the round indices at which scores_dict.clear() ran
  merged,                \* history: <<round index, post id>> of each merge_scores call
  ranked_top,            \* the outcome of the last get_top call
  ordinal_i,             \* add_ordinal_suffix: its argument i
  index_fmt,             \* add_ordinal_suffix: its result
  score_function_str,    \* ScoreFunction: the expression compiled
  functions,             \* ScoreFunction.functions
  input_scores,          \* ScoreFunction.__call__: its argument
  stage_outputs,         \* history: what each stage of the call returned
  result,                \* the outcome of the ScoreFunction call
  record,                \* one UserScores
  before,                \* history: the record before the last add
  last_add,              \* history: <<round_index, score>> of the last add
  text,                  \* get_goal_number_from_text: the matches of the pattern in its text
  number,                \* get_goal_number_from_text: its result
  reset_scores,          \* the outcome of the if_reset_series_scores call
  DEBUG_MODE,            \* config["debug"]
  program,               \* which script runs: "geostackr.py" or "GeoStackr.py"
  sleep_modifier,        \* main: the factor of the sleep interval
  sleep_left,            \* time.sleep: the seconds still to sleep
  series_left,           \* handle_each_series: the series configs still to check
  caught,                \* history: how the last pass ended, "" before the first
  notified               \* history: how the last message_author_about_error call ended

passVars == <<series_config, relevant_submissions, series_index, scores_dict, comments,
              table, cleared, merged>>

rankVars == <<ranked_top>>

ordinalVars == <<ordinal_i, index_fmt>>

scoreVars == <<score_function_str, functions, input_scores, stage_outputs, result>>

recordVars == <<record, before, last_add>>

extractVars == <<text, number>>

resetVars == <<reset_scores>>

mainVars == <<DEBUG_MODE, program, sleep_modifier, sleep_left, series_left, caught, notified>>

\* all but pc and the variables of main
notMainVars == <<passVars, rankVars, ordinalVars, scoreVars, recordVars, extractVars, resetVars>>

vars == <<pc, passVars, rankVars, ordinalVars, scoreVars, recordVars, extractVars, resetVars,
          mainVars>>

\* the variables of the other calls, at rest
IdlePass ==
  /\ series_config = <<>>
  /\ relevant_submissions = <<>>
  /\ series_index = 1
  /\ scores_dict = <<>>
  /\ comments = <<>>
  /\ table = Ok(<<>>)
  /\ cleared = {}
  /\ merged = <<>>

IdleRank == ranked_top = Ok(<<>>)

IdleOrdinal == ordinal_i = 0 /\ index_fmt = <<>>

IdleScore ==
  /\ score_function_str = <<>>
  /\ functions = <<>>
  /\ input_scores = <<>>
  /\ stage_outputs = <<>>
  /\ result = Ok(0)

IdleRecord == record = NewUserScores("", <<>>) /\ before = record /\ last_add = <<>>

IdleExtract == text = <<>> /\ number = None

IdleReset == reset_scores = Ok(FALSE)

IdleMain ==
  /\ DEBUG_MODE = FALSE
  /\ program = ""
  /\ sleep_modifier = 1
  /\ sleep_left = 0
  /\ series_left = 0
  /\ caught = ""
  /\ notified = ""

\* ------------------------------------------------------------ inputs
\* 2020-01-06 is a Monday: a day, the next day (same week and month) and the
\* same day of the next month
SampleTimes == { Timestamp(2020, 1, 6, 9), Timestamp(2020, 1, 7, 9), Timestamp(2020, 2, 6, 9) }

Optional(key, values) == {<<>>} \cup {(key :> v) : v \in values}

\* the configs of a pass, as validate_existing_series leaves them
SeriesConfigs ==
  { [ignore |-> {"carol"}, series_score_function |-> Chars(f), min |-> 0, max |-> 2]
      @@ goal @@ reset
    : f \in {"", "average"},
      goal \in Optional("goal", {"lowest"}),
      reset \in Optional("reset_every", {Chars("day"), Chars("Week"), Chars("month")}) }

Comment(author, body) == [author |-> author, body |-> body]

\* what the model reads under a post of a pass: nothing, a zero, scores of one
\* or both players in either order, an ignored account, a deleted account
PassCommentLists ==
  { <<>>,
    <<Comment(Some("alice"), <<<<"0">>>>)>>,
    <<Comment(Some("alice"), <<<<"1">>>>)>>,
    <<Comment(Some("bob"), <<<<"2">>>>)>>,
    <<Comment(Some("alice"), <<<<"1">>>>), Comment(Some("bob"), <<<<"1">>>>)>>,
    <<Comment(Some("bob"), <<<<"1">>>>), Comment(Some("alice"), <<<<"2">>, <<"7">>>>)>>,
    <<Comment(Some("carol"), <<<<"2">>>>), Comment(Some(BotUsername), <<<<"1">>>>),
      Comment(Some("GeoGuessrTrackingBot"), <<<<"1">>>>)>>,
    <<Comment(None, <<<<"2">>>>), Comment(Some("bob"), <<<<"9">>>>)>> }

\* redditor.submissions.new() lists the newest post first
NewestFirst(times) == \A i \in 1..(Len(times) - 1) : times[i] >= times[i + 1]

Listings ==
  UNION { {times \in [1..n -> SampleTimes] : NewestFirst(times)} : n \in 0..MaxPosts }

TopCount == 2

\* ------------------------------------------------------------ a pass over a series
Init ==
  /\ pc = "fetch"
  /\ series_config \in SeriesConfigs
  /\ relevant_submissions = <<>>
  /\ series_index = 1
  /\ scores_dict = <<>>
  /\ comments = <<>>
  /\ table = Ok(<<>>)
  /\ cleared = {}
  /\ merged = <<>>
  /\ IdleRank /\ IdleOrdinal /\ IdleScore /\ IdleRecord
  /\ IdleExtract /\ IdleReset /\ IdleMain

\* check_submissions_for_series up to its loop: the matching posts, sorted by
\* created_utc
Fetch ==
  /\ pc = "fetch"
  /\ \E times \in Listings :
       LET listing == [i \in 1..Len(times) |-> [id |-> i, created_utc |-> times[i]]]
       IN relevant_submissions' = SortedItems(listing, times)
  /\ pc' = "loop"
  /\ UNCHANGED <<series_config, series_index, scores_dict, comments, table, cleared, merged>>
  /\ UNCHANGED <<rankVars, ordinalVars, scoreVars, recordVars>>
  /\ UNCHANGED <<extractVars, resetVars, mainVars>>

\* filtered_top: the entries not hidden from the standings, cut to top_count
FilteredTop(top, series_config_) ==
  SliceTo(SelectSeq(top, LAMBDA t :
            t[1] \notin ConfigGet(series_config_, "ignore_in_reddit_standings", {})), TopCount)

\* one turn of check_submissions_for_series' loop
ProcessPost ==
  /\ pc = "loop"
  /\ series_index <= Len(relevant_submissions)
  /\ LET reset == if_reset_series_scores(relevant_submissions, series_index, series_config)
     IN IF ~reset.ok
        THEN /\ pc' = "raised"
             /\ UNCHANGED <<series_index, scores_dict, comments, table, cleared, merged, ranked_top>>
        ELSE \E read \in PassCommentLists :
               LET kept == IF reset.val THEN <<>> ELSE scores_dict
                   after == merge_scores(kept, read, series_index, series_config)
                   ranked == get_top(after)
                   body == IF ~ranked.ok THEN ranked
                           ELSE get_formatted_table(FilteredTop(ranked.val, series_config))
               IN /\ comments' = read
                  /\ ranked_top' = IF after # <<>> THEN ranked ELSE ranked_top
                  /\ scores_dict' = after
                  /\ cleared' = IF reset.val THEN cleared \cup {series_index} ELSE cleared
                  /\ merged' = Append(merged, <<series_index, relevant_submissions[series_index].id>>)
                  /\ table' = IF after # <<>> THEN body ELSE table
                  /\ IF after # <<>> /\ ~body.ok
                     THEN pc' = "raised" /\ UNCHANGED series_index
                     ELSE pc' = "loop" /\ series_index' = series_index + 1
  /\ UNCHANGED <<series_config, relevant_submissions, ordinalVars, scoreVars, recordVars>>
  /\ UNCHANGED <<extractVars, resetVars, mainVars>>

\* the loop has handled every post: the call returns
Finish ==
  /\ pc = "loop"
  /\ series_index > Len(relevant_submissions)
  /\ pc' = "done"
  /\ UNCHANGED <<passVars, rankVars, ordinalVars, scoreVars, recordVars>>
  /\ UNCHANGED <<extractVars, resetVars, mainVars>>

Next == Fetch \/ ProcessPost \/ Finish

Spec == Init /\ [][Next]_vars

\* ------------------------------------------------------------ one round
\* merge_scores on one post, for every short list of comments
RoundConfigs ==
  { [ignore |-> {"carol"}, series_score_function |-> Chars("")] @@ goal @@ bounds
    : goal \in Optional("goal", {"highest", "lowest"}),
      bounds \in {<<>>, [min |-> 0, max |-> 2]} }

RoundAuthors == {Some("alice"), Some("bob"), Some("carol"), None}

RoundBodies == { <<>>, <<<<"0">>>>, <<<<"2">>>>, <<<<"1">>, <<"3">>>> }

RoundComments == {Comment(a, b) : a \in RoundAuthors, b \in RoundBodies}

RoundCommentLists == UNION {[1..n -> RoundComments] : n \in 0..MaxComments}

InitRound ==
  /\ pc = "round"
  /\ series_config \in RoundConfigs
  /\ relevant_submissions = <<>>
  /\ series_index \in 1..2
  /\ scores_dict = <<>>
  /\ comments = <<>>
  /\ table = Ok(<<>>)
  /\ cleared = {}
  /\ merged = <<>>
  /\ IdleRank /\ IdleOrdinal /\ IdleScore /\ IdleRecord
  /\ IdleExtract /\ IdleReset /\ IdleMain

MergeRound ==
  /\ pc = "round"
  /\ \E read \in RoundCommentLists :
       /\ comments' = read
       /\ scores_dict' = merge_scores(scores_dict, read, series_index, series_config)
  /\ pc' = "merged"
  /\ UNCHANGED <<series_config, relevant_submissions, series_index, table, cleared, merged>>
  /\ UNCHANGED <<rankVars, ordinalVars, scoreVars, recordVars>>
  /\ UNCHANGED <<extractVars, resetVars, mainVars>>

NextRound == MergeRound

SpecRound == InitRound /\ [][NextRound]_vars

\* ------------------------------------------------------------ claims: the pass
\* the calendar bucket of a timestamp: its day, its week (named by the week's
\* Monday) or its month of its year
Bucket(interval, created_utc) ==
  CASE interval = "day" -> <<DaysOf(created_utc)>>
    [] interval = "week" -> <<DaysOf(created_utc) - IsoWeekday(DaysOf(created_utc)) + 1>>
    [] interval = "month" -> <<CivilFromDays(DaysOf(created_utc)).year,
                               CivilFromDays(DaysOf(created_utc)).month>>

\* the cadences the config's reset_every names
ConfiguredIntervals ==
  {interval \in {"day", "week", "month"} :
     Contains(Lower(ConfigGet(series_config, "reset_every", <<>>)), Chars(interval))}

\* posts k-1 and k of the sorted series lie in different buckets of a configured cadence
BoundaryBefore(k) ==
  \E interval \in ConfiguredIntervals :
    Bucket(interval, relevant_submissions[k - 1].created_utc)
      # Bucket(interval, relevant_submissions[k].created_utc)

\* C1: for every merged post k >= 2, the leaderboard was cleared before merging
\* post k exactly when posts k-1 and k fall in different buckets of the
\* configured cadence.
C1_ClearedExactlyAtBoundary ==
  \A j \in 1..Len(merged) :
    LET k == merged[j][1]
    IN k >= 2 => ((k \in cleared) <=> BoundaryBefore(k))

\* C2: a pass over a series with n >= 1 posts ends by returning, never by
\* raising, after merging every post once, oldest first, as rounds 1..n.
C2_PassMergesAllAndReturns ==
  (pc \in {"done", "raised"} /\ Len(relevant_submissions) >= 1) =>
    /\ pc = "done"
    /\ \A i \in 1..(Len(relevant_submissions) - 1) :
         relevant_submissions[i].created_utc <= relevant_submissions[i + 1].created_utc
    /\ merged = [k \in 1..Len(relevant_submissions) |-> <<k, relevant_submissions[k].id>>]

\* ------------------------------------------------------------ claims: one round
\* what the extractor selects from comment i
Extracted(i) == get_goal_number_from_text(series_config, comments[i].body)

\* comment i is from a present, non-ignored author and a value was extracted from it
Qualifies(i) ==
  /\ comments[i].author.some
  /\ comments[i].author.val \notin (IGNORE_USERS \cup series_config["ignore"])
  /\ Extracted(i).some

\* the values extracted from the qualifying replies of one author
ValuesOf(author) ==
  {Extracted(i).val : i \in {j \in 1..Len(comments) : Qualifies(j) /\ comments[j].author.val = author}}

\* the round's entry of an author: None when the leaderboard has none
RoundEntry(author) ==
  IF HasKey(scores_dict, author) /\ HasKey(DictGet(scores_dict, author, <<>>).scores, series_index)
  THEN Some(DictGet(DictGet(scores_dict, author, <<>>).scores, series_index, 0))
  ELSE None

\* C3: an author with a qualifying reply whose selected value is 0 has an entry
\* for the round after the merge, and the entry is 0 when 0 is all that was
\* extracted from the author's replies.
C3_ZeroIsAScore ==
  pc = "merged" =>
    \A i \in 1..Len(comments) :
      (Qualifies(i) /\ Extracted(i).val = 0) =>
        /\ RoundEntry(comments[i].author.val).some
        /\ ValuesOf(comments[i].author.val) = {0} => RoundEntry(comments[i].author.val).val = 0

SetMax(S) == CHOOSE x \in S : \A y \in S : y <= x

SetMin(S) == CHOOSE x \in S : \A y \in S : x <= y

\* C7: after the merge, the round's score of every author with qualifying
\* replies is the goal function (max, or min for goal lowest) over all the values
\* extracted from that author's replies, whatever their order.
C7_GoalOverAllReplies ==
  pc = "merged" =>
    \A i \in 1..Len(comments) :
      Qualifies(i) =>
        LET author == comments[i].author.val
        IN RoundEntry(author) =
             Some(IF ConfigGet(series_config, "goal", "highest") = "lowest"
                  THEN SetMin(ValuesOf(author)) ELSE SetMax(ValuesOf(author)))

\* ------------------------------------------------------------ add_ordinal_suffix
InitOrdinal ==
  /\ pc = "ordinal"
  /\ IdlePass /\ IdleRank /\ IdleOrdinal /\ IdleScore /\ IdleRecord
  /\ IdleExtract /\ IdleReset /\ IdleMain

FormatOrdinal ==
  /\ pc = "ordinal"
  /\ \E n \in 1..MaxOrdinal :
       /\ ordinal_i' = n
       /\ index_fmt' = add_ordinal_suffix(n)
  /\ UNCHANGED <<pc, passVars, rankVars, scoreVars, recordVars>>
  /\ UNCHANGED <<extractVars, resetVars, mainVars>>

NextOrdinal == FormatOrdinal

SpecOrdinal == InitOrdinal /\ [][NextOrdinal]_vars

\* the English ordinal suffix of n
EnglishSuffix(n) ==
  IF n % 100 \in {11, 12, 13} THEN <<"t", "h">>
  ELSE CASE n % 10 = 1 -> <<"s", "t">>
         [] n % 10 = 2 -> <<"n", "d">>
         [] n % 10 = 3 -> <<"r", "d">>
         [] OTHER -> <<"t", "h">>

\* C4: add_ordinal_suffix(i) is the decimal text of i followed by its English
\* ordinal suffix, for every i >= 1.
C4_EnglishOrdinal ==
  ordinal_i >= 1 => index_fmt = ToStr(ordinal_i) \o EnglishSuffix(ordinal_i)

\* ------------------------------------------------------------ ScoreFunction calls
\* the text of a stage, as a series config writes it
StageTexts ==
  {Chars(w) \o ToStr(n) : w \in {"max", "min", "newest", "oldest"}, n \in 0..MaxParam}
    \cup {Chars("pad") \o ToStr(n) \o Chars("with") \o ToStr(v) : n \in 0..MaxParam, v \in {0, 7}}
    \cup {Chars("sum"), Chars("average")}

\* the expressions: no stage, one stage, or two stages joined by an arrow
Expressions ==
  {<<>>} \cup StageTexts \cup {a \o Chars(" -> ") \o b : a \in StageTexts, b \in StageTexts}

ScoreLists == UNION {[1..n -> {1, 2}] : n \in 1..MaxList}

InitScore ==
  /\ pc = "compile"
  /\ IdlePass /\ IdleRank /\ IdleOrdinal /\ IdleScore /\ IdleRecord
  /\ IdleExtract /\ IdleReset /\ IdleMain

\* ScoreFunction(score_function_str)
Compile ==
  /\ pc = "compile"
  /\ \E expression \in Expressions :
       /\ score_function_str' = expression
       /\ functions' = ScoreFunction(expression)
  /\ pc' = "call"
  /\ UNCHANGED <<passVars, rankVars, ordinalVars, recordVars, input_scores, stage_outputs, result>>
  /\ UNCHANGED <<extractVars, resetVars, mainVars>>

\* what the stages 1..k of the pipeline return on scores, one outcome per stage,
\* up to the stage that raises
RECURSIVE StageOutputs(_, _, _)
StageOutputs(fs, scores, k) ==
  IF k = 0 THEN <<>>
  ELSE LET earlier == StageOutputs(fs, scores, k - 1)
       IN IF Len(earlier) < k - 1 \/ (k > 1 /\ ~earlier[k - 1].ok) THEN earlier
          ELSE Append(earlier, RunStages(SubSeq(fs, 1, k), Ok(scores)))

\* score_function(scores)
Call ==
  /\ pc = "call"
  /\ \E scores \in ScoreLists :
       /\ input_scores' = scores
       /\ stage_outputs' = StageOutputs(functions, scores, Len(functions))
       /\ result' = CallScoreFunction(functions, scores)
  /\ pc' = "called"
  /\ UNCHANGED <<passVars, rankVars, ordinalVars, recordVars, score_function_str, functions>>
  /\ UNCHANGED <<extractVars, resetVars, mainVars>>

NextScore == Compile \/ Call

SpecScore == InitScore /\ [][NextScore]_vars

\* C5: the call of any compiled expression on any non-empty list of integers
\* returns, and returns an integer.
C5_CallReturnsAnInteger == pc = "called" => (result.ok /\ result.val \in Int)

\* the values of s as a bag: value -> number of occurrences
BagOf(s) == [v \in {s[k] : k \in 1..Len(s)} |-> Cardinality({k \in 1..Len(s) : s[k] = v})]

\* C6: a selecting first stage with parameter N keeps exactly min(N, len(L))
\* values of its input L: maxN the largest, minN the smallest, newestN the last,
\* oldestN the first; so maxN alone on a list no longer than N gives its sum.
C6_SelectKeepsMinNLen ==
  (pc = "called" /\ functions[1].name \in {"maxX", "minX", "newestX", "oldestX"}) =>
    LET n == functions[1].params[1]
        L == input_scores
        k == Min2(n, Len(L))
        out == stage_outputs[1].val
        asc == Sorted(L)
    IN /\ Len(out) = k
       /\ functions[1].name = "maxX" => BagOf(out) = BagOf(SubSeq(asc, Len(L) - k + 1, Len(L)))
       /\ functions[1].name = "minX" => BagOf(out) = BagOf(SubSeq(asc, 1, k))
       /\ functions[1].name = "newestX" => out = SubSeq(L, Len(L) - k + 1, Len(L))
       /\ functions[1].name = "oldestX" => out = SubSeq(L, 1, k)
       /\ (functions[1].name = "maxX" /\ Len(functions) = 2 /\ Len(L) <= n) =>
            result = Ok(SeqSum(L))

\* ------------------------------------------------------------ ranking a leaderboard
RankUsers == {"alice", "bob", "carol", "dave"}

\* the rounds a record of the leaderboard may hold: 1 or 2 in round 1, 1 in
\* round 2, or 1 in both rounds
RankScores == { <<<<1, 1>>>>, <<<<1, 2>>>>, <<<<2, 1>>>>, <<<<1, 1>>, <<2, 1>>>> }

\* the leaderboards: distinct users in any insertion order, every record with
\* the pipeline of the series
Leaderboards ==
  UNION { { [k \in 1..n |->
              <<who[k], [NewUserScores(who[k], ScoreFunction(f)) EXCEPT !.scores = rounds[k]]>>]
            : who \in {w \in [1..n -> RankUsers] : \A a, b \in 1..n : a # b => w[a] # w[b]},
              rounds \in [1..n -> RankScores],
              f \in {Chars(""), Chars("max") \o <<"1">>} }
          : n \in 0..MaxEntries }

InitRank ==
  /\ pc = "rank"
  /\ scores_dict \in Leaderboards
  /\ series_config = <<>>
  /\ relevant_submissions = <<>>
  /\ series_index = 1
  /\ comments = <<>>
  /\ table = Ok(<<>>)
  /\ cleared = {}
  /\ merged = <<>>
  /\ IdleRank /\ IdleOrdinal /\ IdleScore /\ IdleRecord
  /\ IdleExtract /\ IdleReset /\ IdleMain

\* top = get_top(scores_dict)
Rank ==
  /\ pc = "rank"
  /\ ranked_top' = get_top(scores_dict)
  /\ pc' = "ranked"
  /\ UNCHANGED <<passVars, ordinalVars, scoreVars, recordVars>>
  /\ UNCHANGED <<extractVars, resetVars, mainVars>>

\* get_formatted_table(top)
FormatTable ==
  /\ pc = "ranked"
  /\ ranked_top.ok
  /\ table' = get_formatted_table(ranked_top.val)
  /\ pc' = "formatted"
  /\ UNCHANGED <<series_config, relevant_submissions, series_index, scores_dict, comments,
                 cleared, merged, rankVars, ordinalVars, scoreVars, recordVars>>
  /\ UNCHANGED <<extractVars, resetVars, mainVars>>

NextRank == Rank \/ FormatTable

SpecRank == InitRank /\ [][NextRank]_vars

\* the reduced score of entry k of the ranked list
ReducedAt(k) == apply_score_function(ranked_top.val[k][2]).val

\* the first position of the tie block of entry k: the least j such that the
\* entries j..k all have entry k's reduced score
FirstOfBlock(k) ==
  CHOOSE j \in 1..k :
    /\ \A m \in j..k : ReducedAt(m) = ReducedAt(k)
    /\ j > 1 => ReducedAt(j - 1) # ReducedAt(k)

\* C8: every row of the table shows the ordinal of the first position of its
\* tie block: the rank of the row before it when their reduced scores are
\* equal, its own position otherwise.
C8_RowsShowFirstOfTieBlock ==
  pc = "formatted" =>
    /\ table.ok
    /\ Len(table.val) = Len(ranked_top.val)
    /\ \A k \in 1..Len(table.val) :
         /\ table.val[k].rank = ToStr(FirstOfBlock(k)) \o EnglishSuffix(FirstOfBlock(k))
         /\ (k > 1 /\ ReducedAt(k) = ReducedAt(k - 1)) => table.val[k].rank = table.val[k - 1].rank
         /\ (k > 1 /\ ReducedAt(k) # ReducedAt(k - 1)) =>
              table.val[k].rank = ToStr(k) \o EnglishSuffix(k)

\* two rows tied behind exactly one higher row, and two rows tied at the top
C8_Witness ==
  /\ pc = "formatted"
  /\ table.ok
  /\ Len(table.val) = 3
  /\ \/ ReducedAt(1) > ReducedAt(2) /\ ReducedAt(2) = ReducedAt(3)
           /\ table.val[3].rank = <<"2", "n", "d">>
     \/ ReducedAt(1) = ReducedAt(2) /\ ReducedAt(2) > ReducedAt(3)
           /\ table.val[2].rank = <<"1", "s", "t">>

\* where a user stands in the leaderboard's insertion order
InsertedAt(user) == KeyIndex(scores_dict, user)

\* C9: get_top returns all entries of the leaderboard, each once, by
\* non-increasing reduced score, entries of equal reduced score in the order
\* of their insertion into the leaderboard.
C9_TopIsStableDescendingPermutation ==
  pc \in {"ranked", "formatted"} =>
    /\ ranked_top.ok
    /\ Len(ranked_top.val) = Len(scores_dict)
    /\ \A k \in 1..Len(scores_dict) : \E m \in 1..Len(ranked_top.val) : ranked_top.val[m] = scores_dict[k]
    /\ \A a, b \in 1..Len(ranked_top.val) :
         a < b =>
           /\ ReducedAt(a) >= ReducedAt(b)
           /\ ReducedAt(a) = ReducedAt(b) =>
                InsertedAt(ranked_top.val[a][1]) < InsertedAt(ranked_top.val[b][1])

\* a ranked leaderboard of three whose order changed and that holds a tie
C9_Witness ==
  /\ pc = "ranked"
  /\ ranked_top.ok
  /\ Len(ranked_top.val) = 3
  /\ ranked_top.val # scores_dict
  /\ \E a, b \in 1..3 : a < b /\ ReducedAt(a) = ReducedAt(b)

\* ------------------------------------------------------------ one record
InitRecord ==
  /\ pc = "record"
  /\ \E f \in {Chars(""), Chars("newest") \o <<"1">>, Chars("oldest") \o <<"1">>} :
       record = NewUserScores("alice", ScoreFunction(f))
  /\ before = record
  /\ last_add = <<>>
  /\ IdlePass /\ IdleRank /\ IdleOrdinal /\ IdleScore
  /\ IdleExtract /\ IdleReset /\ IdleMain

\* record.add(round_index, score)
Add ==
  /\ pc = "record"
  /\ \E round_index \in 1..MaxRound, score \in 0..2 :
       /\ before' = record
       /\ last_add' = <<round_index, score>>
       /\ record' = UserScoresAdd(record, round_index, score)
  /\ UNCHANGED <<pc, passVars, rankVars, ordinalVars, scoreVars>>
  /\ UNCHANGED <<extractVars, resetVars, mainVars>>

NextRecord == Add

SpecRecord == InitRecord /\ [][NextRecord]_vars

\* C10: after add(r, s) round r holds s and every other round what it held
\* before; the count grew by one if r was new and not at all otherwise; and a
\* second add(r, s) changes nothing: the same record, reduced score and count.
C10_AddOverwritesOneRound ==
  last_add # <<>> =>
    LET r == last_add[1]
        s == last_add[2]
        again == UserScoresAdd(record, r, s)
    IN /\ HasKey(record.scores, r) /\ DictGet(record.scores, r, -1) = s
       /\ \A q \in 1..MaxRound :
            q # r => /\ HasKey(record.scores, q) <=> HasKey(before.scores, q)
                     /\ DictGet(record.scores, q, -1) = DictGet(before.scores, q, -1)
       /\ Cardinality({k \in 1..Len(record.scores) : record.scores[k][1] = r}) = 1
       /\ UserScoresLen(record) =
            UserScoresLen(before) + (IF HasKey(before.scores, r) THEN 0 ELSE 1)
       /\ again = record
       /\ apply_score_function(again) = apply_score_function(record)
       /\ UserScoresLen(again) = UserScoresLen(record)

\* add(r, s2) on a record that held another score s1 for round r, beside another round
C10_Witness ==
  /\ last_add # <<>>
  /\ HasKey(before.scores, last_add[1])
  /\ DictGet(before.scores, last_add[1], -1) # last_add[2]
  /\ UserScoresLen(record) >= 2

\* ------------------------------------------------------------ the number extractor
\* the configs of an extraction: goal, min and max each present or absent
ExtractConfigs ==
  { [ignore |-> {}, series_score_function |-> Chars("")] @@ goal @@ lower @@ upper
    : goal \in Optional("goal", {"highest", "lowest"}),
      lower \in Optional("min", {1, 2}),
      upper \in Optional("max", {1, 2}) }

\* what the pattern may match in a text: 0, 1, 2, 3 and "1,0", which reads 10
ExtractMatches == { <<"0">>, <<"1">>, <<"2">>, <<"3">>, <<"1", ",", "0">> }

ExtractTexts == UNION {[1..n -> ExtractMatches] : n \in 0..MaxMatches}

InitExtract ==
  /\ pc = "extract"
  /\ series_config \in ExtractConfigs
  /\ text \in ExtractTexts
  /\ number = None
  /\ relevant_submissions = <<>>
  /\ series_index = 1
  /\ scores_dict = <<>>
  /\ comments = <<>>
  /\ table = Ok(<<>>)
  /\ cleared = {}
  /\ merged = <<>>
  /\ IdleRank /\ IdleOrdinal /\ IdleScore /\ IdleRecord /\ IdleReset /\ IdleMain

\* number = get_goal_number_from_text(series_config, comment.body)
Extract ==
  /\ pc = "extract"
  /\ number' = get_goal_number_from_text(series_config, text)
  /\ pc' = "extracted"
  /\ UNCHANGED <<passVars, rankVars, ordinalVars, scoreVars, recordVars, text, resetVars,
                 mainVars>>

NextExtract == Extract

SpecExtract == InitExtract /\ [][NextExtract]_vars

\* the integers matched in the text
Candidates == {DecValue(StripNonDigits(text[i])) : i \in 1..Len(text)}

\* the candidates within the configured bounds, each bound applied when configured
InBounds ==
  {v \in Candidates :
     /\ "min" \in DOMAIN series_config => series_config["min"] <= v
     /\ "max" \in DOMAIN series_config => v <= series_config["max"]}

\* C11: the extractor returns None exactly when no matched integer lies within
\* the configured bounds, and otherwise the largest such integer, or the smallest
\* for goal lowest; its result is never outside the bounds.
C11_ExtractsGoalOfBounded ==
  pc = "extracted" =>
    /\ number = IF InBounds = {} THEN None
                ELSE Some(IF ConfigGet(series_config, "goal", "highest") = "lowest"
                          THEN SetMin(InBounds) ELSE SetMax(InBounds))
    /\ number.some =>
         /\ "min" \in DOMAIN series_config => series_config["min"] <= number.val
         /\ "max" \in DOMAIN series_config => number.val <= series_config["max"]

\* a text with candidates outside the bounds and two distinct candidates within
C11_Witness ==
  /\ pc = "extracted"
  /\ number.some
  /\ Cardinality(InBounds) >= 2
  /\ Candidates \ InBounds # {}

\* ------------------------------------------------------------ claims: the leaderboard of a pass
\* the accounts that must stay off the leaderboard of the series
IgnoredAccounts == {BotUsername, "GeoGuessrTrackingBot"} \cup series_config["ignore"]

\* C12: in every state of a pass, no account of the config's ignore set and
\* neither of the globally ignored bot accounts is a key of the leaderboard.
C12_IgnoredNeverOnLeaderboard ==
  \A k \in 1..Len(scores_dict) : scores_dict[k][1] \notin IgnoredAccounts

\* a second round merged, under a post where ignored accounts replied with
\* scores, into a leaderboard that holds players
C12_Witness ==
  /\ Len(merged) >= 2
  /\ scores_dict # <<>>
  /\ \E i, j \in 1..Len(comments) :
       /\ comments[i].author = Some("carol")
       /\ comments[j].author = Some(BotUsername)
       /\ Truthy(get_goal_number_from_text(series_config, comments[i].body))
       /\ Truthy(get_goal_number_from_text(series_config, comments[j].body))

\* ------------------------------------------------------------ the main loop
SLEEP_INTERVAL_SECONDS == 300

\* GeoStackr.py sleeps a fixed time between passes
time_to_sleep == 600

\* a faulty handler that lets the error of the notification escape
AfterNotifyEscapes(outcome) == IF outcome = "raised" THEN "crashed" ELSE "sleep"

\* where main goes once message_author_about_error has returned or raised:
\* its bare except swallows whatever the call raises
AfterNotify(outcome) == "sleep"

\* the seconds main sleeps after a pass
SecondsOf(program_) ==
  IF program_ = "geostackr.py" THEN SLEEP_INTERVAL_SECONDS * sleep_modifier ELSE time_to_sleep

InitMain ==
  /\ pc = "main"
  /\ program \in {"geostackr.py", "GeoStackr.py"}
  /\ DEBUG_MODE \in BOOLEAN
  /\ sleep_modifier = 1
  /\ sleep_left = 0
  /\ series_left = 0
  /\ caught = ""
  /\ notified = ""
  /\ IdlePass /\ IdleRank /\ IdleOrdinal /\ IdleScore /\ IdleRecord /\ IdleExtract /\ IdleReset

\* main up to its first pass: validate_existing_series(), then the branch on DEBUG_MODE
EnterMain ==
  /\ pc = "main"
  /\ pc' = "loop"
  /\ UNCHANGED <<DEBUG_MODE, program, sleep_modifier, sleep_left, series_left, caught, notified>>
  /\ UNCHANGED notMainVars

\* try: handle_each_series().  Without DEBUG_MODE it first checks for new
\* series; GeoStackr.py checks its one series
StartPass ==
  /\ pc = "loop"
  /\ IF program = "GeoStackr.py"
     THEN pc' = "series" /\ series_left' = 1
     ELSE /\ pc' = IF DEBUG_MODE THEN "series" ELSE "check_new"
          /\ \E n \in 0..MaxSeries : series_left' = n
  /\ UNCHANGED <<DEBUG_MODE, program, sleep_modifier, sleep_left, caught, notified>>
  /\ UNCHANGED notMainVars

\* an Exception leaves the pass: main's except clause in the loop, no handler
\* in debug mode
PassRaises ==
  /\ caught' = "Exception"
  /\ IF DEBUG_MODE
     THEN pc' = "crashed" /\ UNCHANGED sleep_modifier
     ELSE IF program = "geostackr.py"
     THEN /\ sleep_modifier < MaxSleepModifier
          /\ sleep_modifier' = sleep_modifier + 1
          /\ pc' = "notify"
     ELSE pc' = "sleep" /\ UNCHANGED sleep_modifier
  /\ UNCHANGED <<DEBUG_MODE, program, sleep_left, series_left, notified>>

\* check_for_new_series() returns or raises
CheckForNewSeries ==
  /\ pc = "check_new"
  /\ \/ pc' = "series" /\ UNCHANGED mainVars
     \/ PassRaises
  /\ UNCHANGED notMainVars

\* check_submissions_for_series(series_config) returns or raises
CheckSeries ==
  /\ pc = "series"
  /\ series_left > 0
  /\ \/ /\ series_left' = series_left - 1
        /\ UNCHANGED <<pc, DEBUG_MODE, program, sleep_modifier, sleep_left, caught, notified>>
     \/ PassRaises
  /\ UNCHANGED notMainVars

\* handle_each_series() returns: sleep_modifier = 1, or the end of a debug run
PassReturns ==
  /\ pc = "series"
  /\ series_left = 0
  /\ caught' = "returned"
  /\ IF DEBUG_MODE
     THEN pc' = "exited" /\ UNCHANGED sleep_modifier
     ELSE /\ pc' = "sleep"
          /\ sleep_modifier' = IF program = "geostackr.py" THEN 1 ELSE sleep_modifier
  /\ UNCHANGED <<DEBUG_MODE, program, sleep_left, series_left, notified>>
  /\ UNCHANGED notMainVars

\* try: message_author_about_error(e) / except: pass
Notify ==
  /\ pc = "notify"
  /\ \E outcome \in {"sent", "raised"} :
       /\ notified' = outcome
       /\ pc' = AfterNotify(outcome)
  /\ UNCHANGED <<DEBUG_MODE, program, sleep_modifier, sleep_left, series_left, caught>>
  /\ UNCHANGED notMainVars

\* time.sleep(...) is entered
Sleep ==
  /\ pc = "sleep"
  /\ sleep_left' = SecondsOf(program)
  /\ pc' = "asleep"
  /\ UNCHANGED <<DEBUG_MODE, program, sleep_modifier, series_left, caught, notified>>
  /\ UNCHANGED notMainVars

\* time passes
Tick ==
  /\ pc = "asleep"
  /\ sleep_left > 0
  /\ sleep_left' = sleep_left - SLEEP_INTERVAL_SECONDS
  /\ UNCHANGED <<pc, DEBUG_MODE, program, sleep_modifier, series_left, caught, notified>>
  /\ UNCHANGED notMainVars

\* time.sleep returns: the next turn of while True
Wake ==
  /\ pc = "asleep"
  /\ sleep_left = 0
  /\ pc' = "loop"
  /\ UNCHANGED <<DEBUG_MODE, program, sleep_modifier, sleep_left, series_left, caught, notified>>
  /\ UNCHANGED notMainVars

NextMain ==
  \/ EnterMain
  \/ StartPass
  \/ CheckForNewSeries
  \/ CheckSeries
  \/ PassReturns
  \/ Notify
  \/ Sleep
  \/ Tick
  \/ Wake

\* the process is one thread: a step that can be taken is taken
SpecMain == InitMain /\ [][NextMain]_vars /\ WF_vars(NextMain)

\* C13: without debug mode no exception ends the process, and once a pass
\* has ended, by returning or by raising, also when notifying the author raised
\* too, the loop sleeps and comes back to start another pass.
C13_LoopSurvivesExceptions ==
  /\ [](~DEBUG_MODE => pc # "crashed")
  /\ (~DEBUG_MODE /\ pc \in {"notify", "sleep"}) ~> (pc = "loop")

\* a pass raised, notifying the author raised too, and the next turn has begun
C13_Witness ==
  /\ ~DEBUG_MODE
  /\ pc = "loop"
  /\ caught = "Exception"
  /\ notified = "raised"
  /\ sleep_modifier >= 2

\* ------------------------------------------------------------ claims: the order of a record
\* the rounds recorded, and the recorded scores by ascending round index
RecordedRounds == {record.scores[k][1] : k \in 1..Len(record.scores)}

RECURSIVE ByRound(_)
ByRound(rounds) ==
  IF rounds = {} THEN <<>>
  ELSE <<DictGet(record.scores, SetMin(rounds), -1)>> \o ByRound(rounds \ {SetMin(rounds)})

\* C14: after any sequence of adds the pipeline is given the recorded scores
\* by ascending round index: newest1 yields the score of the highest round,
\* oldest1 the score of the lowest.
C14_PipelineSeesRoundOrder ==
  last_add # <<>> =>
    /\ Values(record.scores) = ByRound(RecordedRounds)
    /\ record.score_function = ScoreFunction(Chars("newest") \o <<"1">>) =>
         apply_score_function(record) = Ok(DictGet(record.scores, SetMax(RecordedRounds), -1))
    /\ record.score_function = ScoreFunction(Chars("oldest") \o <<"1">>) =>
         apply_score_function(record) = Ok(DictGet(record.scores, SetMin(RecordedRounds), -1))

\* ------------------------------------------------------------ the reset check
\* 2020-01-06 is a Monday in ISO week 2.  Later the same day, the next day, the
\* next week, the same day of the next month, the same date of the next year,
\* and the Monday of ISO week 2 of the next year
ResetTimes ==
  { Timestamp(2020, 1, 6, 9), Timestamp(2020, 1, 6, 21), Timestamp(2020, 1, 7, 9),
    Timestamp(2020, 1, 13, 9), Timestamp(2020, 2, 6, 9), Timestamp(2021, 1, 6, 9),
    Timestamp(2021, 1, 11, 9) }

ResetConfigs ==
  { [ignore |-> {}, series_score_function |-> Chars("")] @@ cadence
    : cadence \in Optional("reset_every", {Chars("day"), Chars("week"), Chars("Week"),
                                           Chars("month")}) }

InitReset ==
  /\ pc = "reset"
  /\ series_config \in ResetConfigs
  /\ \E prev, curr \in ResetTimes :
       /\ prev <= curr
       /\ relevant_submissions = << [id |-> 1, created_utc |-> prev],
                                    [id |-> 2, created_utc |-> curr] >>
  /\ reset_scores = Ok(FALSE)
  /\ series_index = 1
  /\ scores_dict = <<>>
  /\ comments = <<>>
  /\ table = Ok(<<>>)
  /\ cleared = {}
  /\ merged = <<>>
  /\ IdleRank /\ IdleOrdinal /\ IdleScore /\ IdleRecord /\ IdleExtract /\ IdleMain

\* if_reset_series_scores(submissions, 1, series_config): submissions[0]
\* against submissions[1]
CheckReset ==
  /\ pc = "reset"
  /\ reset_scores' = if_reset_series_scores(relevant_submissions, 1, series_config)
  /\ pc' = "checked"
  /\ UNCHANGED <<passVars, rankVars, ordinalVars, scoreVars, recordVars, extractVars, mainVars>>

NextReset == CheckReset

SpecReset == InitReset /\ [][NextReset]_vars

\* C15: the reset check answers true exactly when a cadence is configured and
\* the two posts lie on different calendar dates (day), in different calendar
\* weeks (week) or in different calendar months (month), also when their
\* day-of-month, week or month numbers are equal; it answers false otherwise.
C15_ResetOnDifferentBucket ==
  pc = "checked" =>
    reset_scores = Ok(\E interval \in ConfiguredIntervals :
                        Bucket(interval, relevant_submissions[1].created_utc)
                          # Bucket(interval, relevant_submissions[2].created_utc))

\* ------------------------------------------------------------ claims: the records of a pass
\* C16: in every state of a pass every record of the leaderboard holds at
\* least one round, so avg() returns a value for each of them and rendering the
\* table has not raised.
C16_NoEmptyRecordOnLeaderboard ==
  /\ \A k \in 1..Len(scores_dict) :
       /\ UserScoresLen(scores_dict[k][2]) >= 1
       /\ UserScoresAvg(scores_dict[k][2]).ok
  /\ table.ok

\* a table rendered from the leaderboard of a round merged after a reset
C16_Witness ==
  /\ cleared # {}
  /\ Len(merged) >= 2
  /\ scores_dict # <<>>
  /\ table.ok
  /\ table.val # <<>>
  /\ \E k \in 1..Len(scores_dict) : HasKey(scores_dict[k][2].scores, merged[Len(merged)][1])

==========================================================================
